---- MODULE Spec2Model ----
(***************************************************************************)
(* Pixel Feed (src/main.js): a camera feed is drawn as a grid of grayscale *)
(* circles on a canvas by a requestAnimationFrame loop, and the canvas     *)
(* stream can be recorded with a MediaRecorder driven by two buttons.      *)
(*                                                                         *)
(* The model is the event loop of the page: one action per callback the    *)
(* script registers (promise reactions, click listeners, the recorder's    *)
(* queued task, the video 'play' listener, the animation-frame callback).  *)
(* Every callback runs to completion, so each is one atomic action.        *)
(*                                                                         *)
(* Gray values, which JavaScript keeps as doubles, are kept as exact        *)
(* rationals: the gray value v is the integer v * GrayDen.                 *)
(***************************************************************************)
EXTENDS Integers, Sequences, FiniteSets

(* ------------------------------ bounds --------------------------------- *)

\* recordings started (successful mediaRecorder.start() calls) in one run
MaxSessions == 2
\* largest number of bytes the recorder hands over in one dataavailable event
MaxBlobSize == 1
\* 'play' events the video element fires in one run
MaxPlays == 2
\* drawToCanvas invocations in one run
MaxFrames == 3
\* largest magnitude of the contrast factor when it is varied
MaxContrast == 3

(* --------------------------- configuration ------------------------------ *)

pixelSize == 3
gapSize == 3
\* let contrast = 2
contrastLet == 2
\* the divisor of convertToGrayscale: gray values are kept in units of
\* 1/GrayDen, so that (r + g + b) / 3 stays exact
GrayDen == 3
\* the page's canvas before the script sizes it: the HTML default, or already
\* the size drawToCanvas sets
CanvasSizes == {<<300, 150>>, <<640, 480>>}
\* the contrast factors tried when the transform is checked on its own
ContrastSet == (-MaxContrast)..MaxContrast
\* the video frames fed to the sampler
FramePatterns == {"midgray", "ramp", "mixed"}

VARIABLES
  camera,          \* the getUserMedia promise: "pending", "resolved", "rejected"
  gumCalls,        \* number of getUserMedia calls made
  errorLog,        \* number of console.error calls
  mediaRecorder,   \* "undefined", or the recorder's state "inactive" / "recording"
  recordedChunks,  \* the array recordedChunks
  recordDisabled,  \* recordButton.disabled
  stopDisabled,    \* stopButton.disabled
  downloadLink,    \* downloadLink: href, download, style.display
  tasks,           \* tasks the recorder has queued, oldest first
  session,         \* history: number of recordings started
  delivered,       \* history: the data of every dataavailable event, in order
  finalized,       \* history: the session whose stop event fired last (0: none)
  cleared,         \* history: Len(delivered) when the record listener last
                   \* emptied recordedChunks (0: never)
  lastOp,          \* history: the callback that ran last, and what it found
  contrast,        \* let contrast
  canvas,          \* <<canvas.width, canvas.height>>
  video,           \* the video element: "idle" (no play() yet), "starting"
                   \* (play() called, 'play' event not yet fired), "playing"
  plays,           \* history: number of 'play' events fired
  rafPending,      \* drawToCanvas callbacks waiting in requestAnimationFrame
  frames,          \* history: number of drawToCanvas invocations
  picture          \* what the last drawToCanvas left: the small canvas, the
                   \* frame it sampled and the circles on the main canvas

recVars == <<camera, gumCalls, errorLog, mediaRecorder, recordedChunks,
             recordDisabled, stopDisabled, downloadLink, tasks, session,
             delivered, finalized, cleared>>
drawVars == <<contrast, canvas, video, plays, rafPending, frames, picture>>

vars == <<recVars, drawVars, lastOp>>

(* ------------------------------ helpers --------------------------------- *)

Max(a, b) == IF a > b THEN a ELSE b
Min(a, b) == IF a < b THEN a ELSE b

RECURSIVE Flatten(_)
Flatten(parts) ==
  IF parts = <<>> THEN <<>> ELSE Head(parts) \o Flatten(Tail(parts))

\* the data the recorder gathered for session s: n bytes, each tagged with
\* the session it was captured in and its offset
Gathered(s, n) == [i \in 1..n |-> <<s, i>>]

(* ------------------------- recording: platform -------------------------- *)

\* MediaRecorder.start(): InvalidStateError unless the state is "inactive"
MediaRecorderStart(state) ==
  IF state = "inactive" THEN [threw |-> FALSE, state |-> "recording"]
                        ELSE [threw |-> TRUE, state |-> state]

\* MediaRecorder.stop(): nothing when inactive; otherwise the state becomes
\* "inactive" at once and ONE task is queued that fires dataavailable with
\* the data gathered, then stop
MediaRecorderStop(state, queue, data, s) ==
  IF state = "inactive" THEN [state |-> state, queue |-> queue]
  ELSE [state |-> "inactive",
        queue |-> Append(queue, [sess |-> s, data |-> data])]

\* new Blob(parts): the parts' bytes, concatenated in order
Blob(parts) == Flatten(parts)

(* ------------------------- recording: handlers -------------------------- *)

\* variant: the handler without its size test
OnDataAvailableUnchecked(chunks, data) == Append(chunks, data)

\* mediaRecorder.ondataavailable
OnDataAvailable(chunks, data) ==
  IF Len(data) > 0 THEN Append(chunks, data) ELSE chunks

\* mediaRecorder.onstop
OnStop(chunks) ==
  [href |-> <<Blob(chunks)>>, download |-> "pixelated-recording.webm",
   display |-> "block"]

\* variant: the record listener without its reset
RecordKeeps(chunks) == chunks

\* what the record button's listener does to the chunks
RecordClears(chunks) == <<>>

\* variants: a start that never enables stop, a stop that leaves the
\* buttons as they were while recording
StartButtonsStopOff == [record |-> TRUE, stop |-> TRUE]
StopButtonsKept == [record |-> TRUE, stop |-> FALSE]

\* the buttons' disabled flags after a successful start / after stop
StartButtons == [record |-> TRUE, stop |-> FALSE]
StopButtons == [record |-> FALSE, stop |-> TRUE]

\* the page as loaded: the buttons of the markup, the link without a target
InitButtons == [record |-> FALSE, stop |-> TRUE]
InitLink == [href |-> <<>>, download |-> "", display |-> "none"]

\* .then((stream) => ...): play the video, build the recorder, set handlers
CameraResolve ==
  /\ camera = "pending"
  /\ camera' = "resolved"
  /\ video' = "starting"
  /\ mediaRecorder' = "inactive"
  /\ lastOp' = "resolve"
  /\ UNCHANGED <<gumCalls, errorLog, recordedChunks, recordDisabled,
                 stopDisabled, downloadLink, tasks, session, delivered,
                 finalized, cleared, contrast, canvas, plays, rafPending,
                 frames, picture>>

\* variant: a catch that swallows the error
CatchSilent(n) == n

\* .catch((err) => console.error(...))
CatchLogs(n) == n + 1

CameraReject ==
  /\ camera = "pending"
  /\ camera' = "rejected"
  /\ errorLog' = CatchLogs(errorLog)
  /\ lastOp' = "reject"
  /\ UNCHANGED <<gumCalls, mediaRecorder, recordedChunks, recordDisabled,
                 stopDisabled, downloadLink, tasks, session, delivered,
                 finalized, cleared, drawVars>>

\* if (mediaRecorder) in the click listeners
HasRecorder(r) == r # "undefined"

\* recordButton 'click'. A disabled button receives no click.
RecordClick ==
  /\ ~recordDisabled
  /\ IF HasRecorder(mediaRecorder)
     THEN LET started == MediaRecorderStart(mediaRecorder)
          IN /\ session < MaxSessions
             /\ recordedChunks' = RecordClears(recordedChunks)
             /\ cleared' = Len(delivered)
             /\ mediaRecorder' = started.state
             /\ IF started.threw
                THEN /\ UNCHANGED <<recordDisabled, stopDisabled, session>>
                     /\ lastOp' = "record while recording"
                ELSE /\ recordDisabled' = StartButtons.record
                     /\ stopDisabled' = StartButtons.stop
                     /\ session' = session + 1
                     /\ lastOp' = IF recordedChunks # <<>>
                                  THEN "record discarded" ELSE "record"
     ELSE /\ lastOp' = "record ignored"
          /\ UNCHANGED <<mediaRecorder, recordedChunks, recordDisabled,
                         stopDisabled, session, cleared>>
  /\ UNCHANGED <<camera, gumCalls, errorLog, downloadLink, tasks, delivered,
                 finalized, drawVars>>

\* stopButton 'click'. A disabled button receives no click.
StopClick ==
  /\ ~stopDisabled
  /\ IF HasRecorder(mediaRecorder)
     THEN \E n \in 0..MaxBlobSize :
            LET stopped == MediaRecorderStop(mediaRecorder, tasks,
                                             Gathered(session, n), session)
            IN /\ mediaRecorder' = stopped.state
               /\ tasks' = stopped.queue
               /\ recordDisabled' = StopButtons.record
               /\ stopDisabled' = StopButtons.stop
               /\ lastOp' = IF mediaRecorder = "inactive"
                            THEN "stop while inactive" ELSE "stop"
     ELSE /\ lastOp' = "stop ignored"
          /\ UNCHANGED <<mediaRecorder, tasks, recordDisabled, stopDisabled>>
  /\ UNCHANGED <<camera, gumCalls, errorLog, recordedChunks, downloadLink,
                 session, delivered, finalized, cleared, drawVars>>

\* the task stop() queued: the dataavailable event, then the stop event
RecorderTask ==
  /\ tasks # <<>>
  /\ LET task == Head(tasks)
         chunks == OnDataAvailable(recordedChunks, task.data)
     IN /\ recordedChunks' = chunks
        /\ downloadLink' = OnStop(chunks)
        /\ delivered' = Append(delivered, task.data)
        /\ finalized' = task.sess
  /\ tasks' = Tail(tasks)
  /\ lastOp' = "recorder task"
  /\ UNCHANGED <<camera, gumCalls, errorLog, mediaRecorder, recordDisabled,
                 stopDisabled, session, cleared, drawVars>>

(* ------------------------------ drawing --------------------------------- *)

\* the canvas a page's markup gives before the script sizes it
BlankPicture ==
  [small |-> <<0, 0>>, frame |-> "none", circles |-> 0, shades |-> {},
   last |-> <<0, 0>>]

\* createSmallCanvas: <<width, height>> of the off-screen canvas
createSmallCanvas(cw, ch) ==
  <<cw \div (pixelSize + gapSize), ch \div (pixelSize + gapSize)>>

\* the byte of pixel px, channel ch (0: r, 1: g, 2: b, 3: a) of video frame f
\* once drawVideoOnSmallCanvas has scaled it onto the small canvas
FrameByte(f, px, ch) ==
  IF ch = 3 THEN 255
  ELSE IF f = "midgray" THEN 128
  ELSE IF f = "ramp" THEN px % 256
  ELSE IF ch = 0 THEN px % 256
  ELSE IF ch = 1 THEN (px * 3) % 256
  ELSE (px \div 7) % 256

\* drawVideoOnSmallCanvas + getImageData: the flat RGBA array, from index 0
getImageData(f, small) ==
  [i \in 0..(small[1] * small[2] * 4 - 1) |-> FrameByte(f, i \div 4, i % 4)]

\* convertToGrayscale, in units of 1/GrayDen
convertToGrayscale(r, g, b) == ((r + g + b) * GrayDen) \div 3

\* variants: no clamp; the parentheses around (grayscale - 128) missing
adjustContrastUnclamped(grayscale, c) ==
  128 * GrayDen + (grayscale - 128 * GrayDen) * c
adjustContrastNoParens(grayscale, c) ==
  Max(0, Min(255 * GrayDen, 128 * GrayDen + grayscale - 128 * GrayDen * c))

\* adjustContrast with the factor c it reads from the global, in units of
\* 1/GrayDen
adjustContrast(grayscale, c) ==
  LET adjusted == 128 * GrayDen + (grayscale - 128 * GrayDen) * c
  IN Max(0, Min(255 * GrayDen, adjusted))

\* drawPixelatedImage: one circle per pixel of the small canvas; the record
\* keeps the number of circles, every <<gray, fill>> pair and the centre of
\* the circle drawn last
drawPixelatedImage(data, small, c) ==
  LET cells == {<<x, y>> : x \in 0..(small[1] - 1), y \in 0..(small[2] - 1)}
      shade(cell) ==
        LET index == (cell[2] * small[1] + cell[1]) * 4
            gray == convertToGrayscale(data[index], data[index + 1],
                                       data[index + 2])
        IN <<gray, adjustContrast(gray, c)>>
      centre(cell) == <<cell[1] * (pixelSize + gapSize),
                        cell[2] * (pixelSize + gapSize)>>
  IN [circles |-> Cardinality({centre(cell) : cell \in cells}),
      shades |-> {shade(cell) : cell \in cells},
      last |-> IF cells = {} THEN <<0, 0>>
               ELSE centre(<<small[1] - 1, small[2] - 1>>)]

\* applyPixelatedFilter on frame f with the canvas at size and contrast c
applyPixelatedFilter(f, size, c) ==
  LET smallCanvas == createSmallCanvas(size[1], size[2])
      drawn == drawPixelatedImage(getImageData(f, smallCanvas), smallCanvas, c)
  IN [small |-> smallCanvas, frame |-> f, circles |-> drawn.circles,
      shades |-> drawn.shades, last |-> drawn.last]

\* applyPixelatedFilter, tabulated
Rendered ==
  [f \in FramePatterns |-> [size \in CanvasSizes |-> [c \in ContrastSet |->
     applyPixelatedFilter(f, size, c)]]]

\* variant: drawToCanvas leaving the canvas at the size it has
DrawSizeKept(size) == size

\* the size drawToCanvas gives the canvas
DrawSize(size) == <<640, 480>>

\* the callbacks drawToCanvas leaves in requestAnimationFrame
Requested(pending) == pending + 1

\* drawToCanvas on video frame f
drawToCanvas(f, pending) ==
  /\ frames < MaxFrames
  /\ canvas' = DrawSize(canvas)
  /\ picture' = Rendered[f][canvas'][contrast]
  /\ rafPending' = Requested(pending)
  /\ frames' = frames + 1

\* video 'play': fired once play() has been called, and again whenever the
\* browser resumes the element after pausing it
VideoPlay ==
  /\ video \in {"starting", "playing"}
  /\ plays < MaxPlays
  /\ video' = "playing"
  /\ plays' = plays + 1
  /\ \E f \in FramePatterns : drawToCanvas(f, rafPending)
  /\ lastOp' = "play"
  /\ UNCHANGED <<recVars, contrast>>

\* one callback requestAnimationFrame holds is run
AnimationFrame ==
  /\ rafPending > 0
  /\ \E f \in FramePatterns : drawToCanvas(f, rafPending - 1)
  /\ lastOp' = "frame"
  /\ UNCHANGED <<recVars, contrast, video, plays>>

(* --------------------------- specifications ----------------------------- *)

InitPage ==
  /\ camera = "pending"
  /\ gumCalls = 1
  /\ errorLog = 0
  /\ mediaRecorder = "undefined"
  /\ recordedChunks = <<>>
  /\ recordDisabled = InitButtons.record
  /\ stopDisabled = InitButtons.stop
  /\ downloadLink = InitLink
  /\ tasks = <<>>
  /\ session = 0
  /\ delivered = <<>>
  /\ finalized = 0
  /\ cleared = 0
  /\ lastOp = "load"
  /\ canvas \in CanvasSizes
  /\ video = "idle"
  /\ plays = 0
  /\ rafPending = 0
  /\ frames = 0
  /\ picture = BlankPicture

Init == InitPage /\ contrast = contrastLet

Next ==
  \/ CameraResolve
  \/ CameraReject
  \/ RecordClick
  \/ StopClick
  \/ RecorderTask
  \/ VideoPlay
  \/ AnimationFrame

Spec == Init /\ [][Next]_vars

\* the render pipeline on its own, for every contrast factor of ContrastSet
InitFilter == InitPage /\ contrast \in ContrastSet

NextFilter ==
  \/ CameraResolve
  \/ CameraReject
  \/ VideoPlay
  \/ AnimationFrame

SpecFilter == InitFilter /\ [][NextFilter]_vars

(* ------------------------------- claims --------------------------------- *)

\* C1: the record and stop buttons are mutually exclusive in every state
\* (exactly one is enabled), and a step that changes one button's disabled
\* flag changes the other's too, to the opposite value.
C1_MutuallyExclusive ==
  /\ [](recordDisabled # stopDisabled)
  /\ [][/\ (recordDisabled' # recordDisabled) <=> (stopDisabled' # stopDisabled)
        /\ recordDisabled' # stopDisabled']_vars

\* a recording was started and stopped, and a second one started
C1_Witness ==
  /\ session = 2
  /\ recordDisabled
  /\ ~stopDisabled
  /\ lastOp \in {"record", "record discarded"}

DeliveredSince(n) ==
  SelectSeq(SubSeq(delivered, n + 1, Len(delivered)), LAMBDA d : Len(d) > 0)

\* C3, as stated: recordedChunks is non-empty only between a start and the
\* next stop, that is, only while the recorder is recording.
C3_OnlyWhileRecording ==
  recordedChunks # <<>> => (session >= 1 /\ mediaRecorder = "recording")

\* C3, amended: recordedChunks holds exactly the non-empty chunks delivered
\* since the most recent start (since load, before the first start); so it
\* is empty before the first start and right after every start, and
\* non-empty only once a stop has delivered its final chunk.
C3_ChunksSinceStart ==
  /\ recordedChunks = DeliveredSince(cleared)
  /\ recordedChunks # <<>> => (session >= 1 /\ delivered # <<>>)

\* the final chunk has arrived after the stop and no start has followed
C3_Witness ==
  /\ recordedChunks # <<>>
  /\ mediaRecorder = "inactive"
  /\ lastOp = "recorder task"

\* the bytes the recorder delivered for session s, in delivery order
SessionBytes(s) == SelectSeq(Flatten(delivered), LAMBDA b : b[1] = s)

\* C4: once the stop event of a session has fired, the download link holds
\* a blob that is exactly that session's delivered chunks, in order, under
\* the file name pixelated-recording.webm.
C4_OneSessionOneFile ==
  finalized > 0 =>
    downloadLink = [href |-> <<SessionBytes(finalized)>>,
                    download |-> "pixelated-recording.webm",
                    display |-> "block"]

\* C5: after getUserMedia has rejected, the error has been logged once,
\* getUserMedia has been called once, there is no recorder, clicks have
\* changed nothing, and nothing has been drawn or scheduled.
C5_CameraFailure ==
  camera = "rejected" =>
    /\ errorLog = 1
    /\ gumCalls = 1
    /\ mediaRecorder = "undefined"
    /\ recordedChunks = <<>>
    /\ recordDisabled = InitButtons.record
    /\ stopDisabled = InitButtons.stop
    /\ downloadLink = InitLink
    /\ tasks = <<>>
    /\ video = "idle"
    /\ frames = 0
    /\ rafPending = 0
    /\ picture = BlankPicture

\* the record button was clicked after the rejection
C5_Witness == camera = "rejected" /\ lastOp = "record ignored"

\* C6: at most one drawToCanvas callback is pending in
\* requestAnimationFrame, whatever 'play' events and frames have occurred.
C6_SingleLoop == rafPending <= 1

\* C7: after every frame the canvas is 640 x 480, the small canvas is
\* floor(width / (pixelSize + gapSize)) x floor(height / (pixelSize +
\* gapSize)) = 106 x 80, and 106 * 80 circles are on the canvas.
C7_RasterSize ==
  frames > 0 =>
    /\ canvas = <<640, 480>>
    /\ \A i \in 1..2 :
         /\ picture.small[i] * (pixelSize + gapSize) <= canvas[i]
         /\ canvas[i] < (picture.small[i] + 1) * (pixelSize + gapSize)
    /\ picture.small = <<106, 80>>
    /\ picture.circles = 106 * 80
    /\ picture.last = <<105 * 6, 79 * 6>>

\* a frame drawn by an animation-frame callback on a page whose canvas
\* started at another size
C7_Witness ==
  /\ lastOp = "frame"
  /\ frames >= 2
  /\ picture.circles = 8480

\* max(0, min(255, 128 + (g - 128) * c)) in units of 1/GrayDen, by cases
Clamped(g, c) ==
  LET v == 128 * GrayDen + (g - 128 * GrayDen) * c
  IN IF v < 0 THEN 0 ELSE IF v > 255 * GrayDen THEN 255 * GrayDen ELSE v

\* C8: every fill value a frame used is max(0, min(255, 128 + (g - 128) *
\* contrast)) of its gray input g in [0, 255], and lies in [0, 255].
C8_ContrastClamped ==
  \A s \in picture.shades :
    /\ 0 <= s[1] /\ s[1] <= 255 * GrayDen
    /\ s[2] = Clamped(s[1], contrast)
    /\ 0 <= s[2] /\ s[2] <= 255 * GrayDen

\* a frame under a negative contrast factor with fills clamped at 0, clamped
\* at 255 and strictly between, and with a gray input that is no integer
C8_Witness ==
  /\ contrast < 0
  /\ \E s \in picture.shades : s[2] = 0 /\ s[1] > 128 * GrayDen
  /\ \E s \in picture.shades : s[2] = 255 * GrayDen /\ s[1] < 128 * GrayDen
  /\ \E s \in picture.shades : 0 < s[2] /\ s[2] < 255 * GrayDen
  /\ \E s \in picture.shades : s[1] % GrayDen # 0

\* C9: a frame whose every sample is (128, 128, 128) is drawn with fill 128
\* in every circle, whatever the contrast factor.
C9_MidpointFixed ==
  picture.frame = "midgray" =>
    /\ picture.circles > 0
    /\ picture.shades = {<<128 * GrayDen, 128 * GrayDen>>}

\* a mid-gray frame drawn under the largest negative contrast factor
C9_Witness ==
  /\ picture.frame = "midgray"
  /\ contrast = -MaxContrast
  /\ frames >= 1

\* C10: while a recorder exists, recordButton is disabled and stopButton
\* enabled exactly when the recorder is recording; and start() has never
\* been called on a recording recorder, nor stop() on an inactive one.
C10_ButtonsFollowRecorder ==
  /\ HasRecorder(mediaRecorder) =>
       ((recordDisabled /\ ~stopDisabled) <=> mediaRecorder = "recording")
  /\ lastOp \notin {"record while recording", "stop while inactive"}

\* a recording was stopped while the previous stop's task was still queued
C10_Witness ==
  /\ lastOp = "stop"
  /\ session = 2
  /\ Len(tasks) = 2
  /\ mediaRecorder = "inactive"

====
